---- MODULE Spec2Model ----
(***************************************************************************)
(* A model of the fractal explorer's render session (src/src/lib.rs): the  *)
(* process-wide Viewport and drawing context, the three exported            *)
(* operations init, render and zoom_at, and the pure pixel pipeline         *)
(* map_pixel_to_complex, calculate_mandelbrot and get_color.                *)
(*                                                                         *)
(* f64 values are binary floating-point numbers m * 2^e with a significand *)
(* of Prec bits, rounded to nearest, ties to even, plus the two infinities *)
(* and NaN.  The build has 53 significand bits; every operation whose      *)
(* operands and exact result fit in Prec bits gives the very value the     *)
(* build computes.  The exponent is not bounded (no overflow to infinity,  *)
(* no underflow to zero: an infinity arises from a division by zero only), *)
(* and -0.0 is identified with 0.0, which Rust compares equal.             *)
(***************************************************************************)
EXTENDS Integers, Sequences, FiniteSets, TLC

\* significand bits of the modelled floating-point format
Prec == 12

--------------------------------------------------------------------------
\* f64 arithmetic

\* the number of bits of n, for 0 <= n < 2^31 (a binary search, no recursion)
BitLen2(n) == IF n >= 2 THEN 2 ELSE n

BitLen4(n) == IF n >= 4 THEN 2 + BitLen2(n \div 4) ELSE BitLen2(n)

BitLen8(n) == IF n >= 16 THEN 4 + BitLen4(n \div 16) ELSE BitLen4(n)

BitLen16(n) == IF n >= 256 THEN 8 + BitLen8(n \div 256) ELSE BitLen8(n)

BitLen(n) == IF n >= 65536 THEN 16 + BitLen16(n \div 65536) ELSE BitLen16(n)

Abs(n) == IF n < 0 THEN -n ELSE n

Sgn(n) == IF n < 0 THEN -1 ELSE IF n > 0 THEN 1 ELSE 0

Fin(m, e) == [k |-> "fin", m |-> m, e |-> e]

\* m * 2^e with the trailing zero bits of m moved into e, m # 0
Norm1(m, e) == IF m % 2 = 0 THEN Fin(m \div 2, e + 1) ELSE Fin(m, e)

Norm2(m, e) == IF m % 4 = 0 THEN Norm1(m \div 4, e + 2) ELSE Norm1(m, e)

Norm4(m, e) == IF m % 16 = 0 THEN Norm2(m \div 16, e + 4) ELSE Norm2(m, e)

Norm8(m, e) == IF m % 256 = 0 THEN Norm4(m \div 256, e + 8) ELSE Norm4(m, e)

Norm16(m, e) == IF m % 65536 = 0 THEN Norm8(m \div 65536, e + 16) ELSE Norm8(m, e)

\* the canonical form of the finite value m * 2^e: m odd, or m = 0 and e = 0
Norm(m, e) == IF m = 0 THEN Fin(0, 0) ELSE Norm16(m, e)

NaN == [k |-> "nan", m |-> 0, e |-> 0]

Inf(s) == [k |-> "inf", m |-> s, e |-> 0]

\* q plus the rounding of the remainder r against half a unit, ties to even
RoundQ(q, r, half) == IF r > half \/ (r = half /\ q % 2 = 1) THEN q + 1 ELSE q

\* |m| = a shifted right by sh bits and rounded
RoundSh(s, a, e, p) == Norm(s * RoundQ(a \div p, a % p, p \div 2), e)

RoundLen(m, e, L) ==
    IF L <= Prec THEN Norm(m, e)
    ELSE RoundSh(Sgn(m), Abs(m), e + (L - Prec), 2 ^ (L - Prec))

\* the exact value m * 2^e rounded to Prec significand bits, ties to even
RoundFin(m, e) == RoundLen(m, e, BitLen(Abs(m)))

\* an integer (u32, usize) converted with `as f64`
FromInt(n) == RoundFin(n, 0)

\* the literal num / 2^sh, e.g. 0.5 is Lit(1, 1) and 8.5 is Lit(17, 1)
Lit(num, sh) == RoundFin(num, -sh)

IsFin(a) == a.k = "fin"

IsNaN(a) == a.k = "nan"

IsZero(a) == a.k = "fin" /\ a.m = 0

\* -1, 0 or 1; NaN has no sign and gives 0
FSign(a) == IF a.k = "nan" THEN 0 ELSE Sgn(a.m)

FNeg(a) == [a EXCEPT !.m = -a.m]

\* the exponent just above the leading bit of a finite nonzero value
Top(a) == a.e + BitLen(Abs(a.m))

\* the exact sum of two finite values aligned at exponent e, rounded
AddAt(a, b, e) == RoundFin(a.m * (2 ^ (a.e - e)) + b.m * (2 ^ (b.e - e)), e)

AddTop(a, b, ta, tb) ==
    IF ta - tb > Prec + 1 THEN a
    ELSE IF tb - ta > Prec + 1 THEN b
    ELSE AddAt(a, b, IF a.e < b.e THEN a.e ELSE b.e)

FAdd(a, b) ==
    IF a.k = "nan" \/ b.k = "nan" THEN NaN
    ELSE IF a.k = "inf" /\ b.k = "inf" THEN (IF a.m = b.m THEN a ELSE NaN)
    ELSE IF a.k = "inf" THEN a
    ELSE IF b.k = "inf" THEN b
    ELSE IF a.m = 0 THEN b
    ELSE IF b.m = 0 THEN a
    ELSE AddTop(a, b, Top(a), Top(b))

FSub(a, b) == FAdd(a, FNeg(b))

FMul(a, b) ==
    IF a.k = "nan" \/ b.k = "nan" THEN NaN
    ELSE IF a.k = "inf" \/ b.k = "inf"
         THEN (IF a.m = 0 \/ b.m = 0 THEN NaN ELSE Inf(Sgn(a.m) * Sgn(b.m)))
    ELSE RoundFin(a.m * b.m, a.e + b.e)

\* the quotient n / d with a sticky bit for the remainder, rounded
DivQ(s, n, d, e) == RoundFin(s * (2 * (n \div d) + (IF n % d = 0 THEN 0 ELSE 1)), e)

DivSh(a, b, sh) ==
    DivQ(Sgn(a.m) * Sgn(b.m), Abs(a.m) * (2 ^ sh), Abs(b.m), a.e - b.e - sh - 1)

FDiv(a, b) ==
    IF a.k = "nan" \/ b.k = "nan" THEN NaN
    ELSE IF a.k = "inf"
         THEN (IF b.k = "inf" THEN NaN
               ELSE Inf(IF b.m < 0 THEN -a.m ELSE a.m))
    ELSE IF b.k = "inf" THEN Fin(0, 0)
    ELSE IF b.m = 0 THEN (IF a.m = 0 THEN NaN ELSE Inf(Sgn(a.m)))
    ELSE IF a.m = 0 THEN Fin(0, 0)
    ELSE DivSh(a, b, Prec + 2 + BitLen(Abs(b.m)) - BitLen(Abs(a.m)))

\* a > b as f64 compares: false when either is NaN
FGt(a, b) ==
    IF a.k = "nan" \/ b.k = "nan" THEN FALSE
    ELSE IF a = b THEN FALSE
    ELSE FSign(FSub(a, b)) > 0

RECURSIVE ISqrtAcc(_, _, _)
\* the largest r with r * r <= n, built from the high bit down
ISqrtAcc(n, r, bit) ==
    IF bit = 0 THEN r
    ELSE ISqrtAcc(n, IF (r + bit) * (r + bit) <= n THEN r + bit ELSE r, bit \div 2)

SqrtR(n, r, e) == RoundFin(2 * r + (IF r * r = n THEN 0 ELSE 1), e)

SqrtN(n, e) == SqrtR(n, ISqrtAcc(n, 0, 2 ^ (Prec + 1)), e)

SqrtJ(a, j) == SqrtN(a.m * (2 ^ j), ((a.e - j) \div 2) - 1)

SqrtJ0(a, j0) == SqrtJ(a, IF (a.e - j0) % 2 = 0 THEN j0 ELSE j0 + 1)

\* a.powf(0.5): the square root, rounded; NaN below zero
FPowHalf(a) ==
    IF a.k = "nan" THEN NaN
    ELSE IF a.k = "inf" THEN Inf(1)
    ELSE IF a.m = 0 THEN a
    ELSE IF a.m < 0 THEN NaN
    ELSE SqrtJ0(a, 2 * Prec + 1 - BitLen(a.m))

Min255(v) == IF v > 255 THEN 255 ELSE v

\* `as u8`: truncation toward zero, saturating at 0 and 255, NaN to 0
ToU8(a) ==
    IF a.k = "nan" THEN 0
    ELSE IF a.k = "inf" THEN (IF a.m > 0 THEN 255 ELSE 0)
    ELSE IF a.m <= 0 THEN 0
    ELSE IF a.e >= 8 THEN 255
    ELSE IF a.e >= 0 THEN Min255(a.m * (2 ^ a.e))
    ELSE IF -a.e > Prec + 1 THEN 0
    ELSE Min255(a.m \div (2 ^ (-a.e)))

--------------------------------------------------------------------------
\* the pixel pipeline

\* the Viewport's defaults
DEFAULT_WIDTH == 800
DEFAULT_HEIGHT == 600
DEFAULT_MAX_ITER == 256

Viewport(cx, cy, range, w, h, mi) ==
    [center_x |-> cx, center_y |-> cy, range |-> range,
     width |-> w, height |-> h, max_iter |-> mi]

\* the zoom's new range with the factor multiplied in
zoom_range_times(range, zoom_factor) == FMul(range, zoom_factor)

\* (vp.range / zoom_factor), the zoom's new range
zoom_range(range, zoom_factor) == FDiv(range, zoom_factor)

\* the mapper without the flip of the vertical axis
map_pixel_unflipped(px, py, vp) ==
    LET w       == FromInt(vp.width)
        h       == FromInt(vp.height)
        range_x == FMul(vp.range, FDiv(w, h))
        x == FAdd(FMul(FSub(FDiv(px, w), Lit(1, 1)), range_x), vp.center_x)
        y == FAdd(FMul(FSub(FDiv(py, h), Lit(1, 1)), vp.range), vp.center_y)
    IN  <<x, y>>

map_pixel_to_complex(px, py, vp) ==
    LET w       == FromInt(vp.width)
        h       == FromInt(vp.height)
        aspect  == FDiv(w, h)
        range_y == vp.range
        range_x == FMul(vp.range, aspect)
        x == FAdd(FMul(FSub(FDiv(px, w), Lit(1, 1)), range_x), vp.center_x)
        y == FAdd(FMul(FSub(Lit(1, 1), FDiv(py, h)), range_y), vp.center_y)
    IN  <<x, y>>

\* the escape test with the threshold itself counted as escaped
escaped_at_threshold(re2, im2) == ~FGt(FromInt(4), FAdd(re2, im2))

\* the escape test of one iteration
escaped(re2, im2) == FGt(FAdd(re2, im2), FromInt(4))

\* the loop's locals: the orbit (re, im), the index n, and the value
\* returned (out), -1 while the loop is still running
Orbit(re, im, n, out) == [re |-> re, im |-> im, n |-> n, out |-> out]

\* iteration s.n once re2 and im2 are computed: the escape test, then the update
mandel_body(s, re2, im2, re0, im0) ==
    IF escaped(re2, im2) THEN Orbit(s.re, s.im, s.n, s.n)
    ELSE Orbit(FAdd(FSub(re2, im2), re0),
               FAdd(FMul(FMul(FromInt(2), s.re), s.im), im0),
               s.n + 1, -1)

\* one pass of `for n in 0..max_iter`: the range's end returns max_iter
mandel_iter(s, re0, im0, max_iter) ==
    IF s.out >= 0 THEN s
    ELSE IF s.n >= max_iter THEN Orbit(s.re, s.im, s.n, max_iter)
    ELSE mandel_body(s, FMul(s.re, s.re), FMul(s.im, s.im), re0, im0)

\* four and sixteen passes: the loop is run in blocks to keep the depth of
\* evaluation independent of max_iter
mandel_iter4(s, re0, im0, max_iter) ==
    mandel_iter(mandel_iter(mandel_iter(mandel_iter(s,
        re0, im0, max_iter), re0, im0, max_iter), re0, im0, max_iter),
        re0, im0, max_iter)

mandel_iter16(s, re0, im0, max_iter) ==
    mandel_iter4(mandel_iter4(mandel_iter4(mandel_iter4(s,
        re0, im0, max_iter), re0, im0, max_iter), re0, im0, max_iter),
        re0, im0, max_iter)

RECURSIVE mandel_loop(_, _, _, _)
mandel_loop(s, re0, im0, max_iter) ==
    IF s.out >= 0 THEN s.out
    ELSE mandel_loop(mandel_iter16(s, re0, im0, max_iter), re0, im0, max_iter)

\* the loop started with the orbit at c instead of 0
calculate_mandelbrot_from_c(re0, im0, max_iter) ==
    mandel_loop(Orbit(re0, im0, 0, -1), re0, im0, max_iter)

calculate_mandelbrot(re0, im0, max_iter) ==
    mandel_loop(Orbit(FromInt(0), FromInt(0), 0, -1), re0, im0, max_iter)

get_color(iter, max_iter) ==
    IF iter = max_iter THEN <<0, 0, 0>>
    ELSE LET t   == FPowHalf(FDiv(FromInt(iter), FromInt(max_iter)))
             one == FromInt(1)
             u   == FSub(one, t)
             c   == FromInt(255)
             r   == FMul(FMul(FMul(FMul(FMul(FromInt(9), u), t), t), t), c)
             g   == FMul(FMul(FMul(FMul(FMul(FromInt(15), u), u), t), t), c)
             b   == FMul(FMul(FMul(FMul(FMul(Lit(17, 1), u), u), u), t), c)
         IN  <<ToU8(r), ToU8(g), ToU8(b)>>

--------------------------------------------------------------------------
\* the host page

\* the largest canvas dimension of the modelled page
MaxDim == 3

\* calls per run that store into the session (zoom_at, and init once it
\* has found its context)
MaxCalls == 2

\* the ids init is called with: "main" is a canvas with a 2D context,
\* "empty" is one of width 0, "gl" is a canvas that hands out no 2D
\* context, "div" is an element that is no canvas, "missing" is no element
\* of the document
CanvasIds == {"main", "empty", "gl", "div", "missing"}

Canvases == {"main", "empty", "gl"}

Drawable == {"main", "empty"}

canvas_width(id) == IF id = "empty" THEN 0 ELSE MaxDim

canvas_height(id) == MaxDim - 1

\* where the module runs: in a page, in a window without a document, or
\* outside any window (a worker)
Hosts == {"page", "nodoc", "worker"}

\* what a canvas shows: the last image put on it
Image(w, h, data) == [width |-> w, height |-> h, data |-> data]

Blank == Image(0, 0, <<>>)

--------------------------------------------------------------------------
\* the session

VARIABLES
    VIEWPORT,   \* the thread-local Viewport
    CTX,        \* the thread-local context: "None", or the canvas it draws on
    host,       \* where the module runs
    shown,      \* what each canvas shows
    pc,         \* "idle", or the place of the running call: "loop", "put"
    frame,      \* render's locals: viewport, ctx, data, px, py
    call,       \* the running (or last) call: op, arguments, state before it
    ret,        \* "pending" while a call runs, then its result
    log,        \* the pixels the running (or last) render computed, in order
    puts,       \* the images the running (or last) call put on a canvas
    renders,    \* how often the running (or last) call entered render()
    calls,      \* the calls so far that stored into the session
    lawful,     \* every zoom_factor so far was nonzero and finite
    pure        \* the pure function under check, in the pipeline runs

vars == <<VIEWPORT, CTX, host, shown, pc, frame, call, ret, log, puts,
          renders, calls, lawful, pure>>

Zero == FromInt(0)

NoFrame == [viewport |-> Viewport(Zero, Zero, Zero, 0, 0, 0), ctx |-> "None",
            data |-> <<>>, px |-> 0, py |-> 0]

NoPure == [f |-> "none"]

\* the thread_local initialisers
DefaultViewport ==
    Viewport(Lit(-1, 1), Zero, FromInt(3),
             DEFAULT_WIDTH, DEFAULT_HEIGHT, DEFAULT_MAX_ITER)

Call(op, id, x, y, zf) ==
    [op |-> op, canvas_id |-> id, x |-> x, y |-> y, zoom_factor |-> zf,
     viewport |-> VIEWPORT, ctx |-> CTX, shown |-> shown]

Init ==
    /\ VIEWPORT = DefaultViewport
    /\ CTX = "None"
    /\ host \in Hosts
    /\ shown = [c \in Drawable |-> Blank]
    /\ pc = "idle"
    /\ frame = NoFrame
    /\ call = [op |-> "start", canvas_id |-> "", x |-> Zero, y |-> Zero,
               zoom_factor |-> Zero, viewport |-> DefaultViewport,
               ctx |-> "None", shown |-> [c \in Drawable |-> Blank]]
    /\ ret = "ok"
    /\ log = <<>>
    /\ puts = <<>>
    /\ renders = 0
    /\ calls = 0
    /\ lawful = TRUE
    /\ pure = NoPure

\* vec![0u8; n]
zeroed(n) == [i \in 1..n |-> 0]

\* get_state_and_ctx without the test for a missing context
get_state_and_ctx_unchecked(ctx) == "ok"

\* get_state_and_ctx: the error, or "ok"
get_state_and_ctx(ctx) == IF ctx = "None" THEN "context not initialized" ELSE "ok"

\* the place render is at once its buffer is allocated: the loops run no
\* body when a dimension is 0
loop_entry(width, height) == IF width = 0 \/ height = 0 THEN "put" ELSE "loop"

\* render() entered with the Viewport vp and the context ctx: it returns at
\* once without a context, and otherwise allocates the buffer
render_enter(vp, ctx) ==
    /\ renders' = 1
    /\ IF get_state_and_ctx(ctx) # "ok"
       THEN /\ ret' = get_state_and_ctx(ctx)
            /\ pc' = "idle"
            /\ frame' = NoFrame
       ELSE /\ ret' = "pending"
            /\ pc' = loop_entry(vp.width, vp.height)
            /\ frame' = [viewport |-> vp, ctx |-> ctx,
                         data |-> zeroed(vp.width * vp.height * 4),
                         px |-> 0, py |-> 0]

\* what init's lookups give for canvas_id: the error, or "ok"
init_lookup(canvas_id) ==
    IF host = "worker" THEN "no window"
    ELSE IF host = "nodoc" THEN "no document"
    ELSE IF canvas_id \notin Canvases \cup {"div"} THEN "canvas not found"
    ELSE IF canvas_id \notin Canvases THEN "not a canvas"
    ELSE IF canvas_id \notin Drawable THEN "no 2D context"
    ELSE "ok"

\* init whose lookups fail: the error is returned before anything is stored
init_fail(canvas_id) ==
    /\ pc = "idle"
    /\ init_lookup(canvas_id) # "ok"
    /\ call' = Call("init", canvas_id, Zero, Zero, Zero)
    /\ ret' = init_lookup(canvas_id)
    /\ log' = <<>>
    /\ puts' = <<>>
    /\ renders' = 0
    /\ UNCHANGED <<VIEWPORT, CTX, host, shown, pc, frame, calls, lawful, pure>>

\* init storing the canvas's dimensions the wrong way round
init_viewport_swapped(vp, canvas_id) ==
    [vp EXCEPT !.width = canvas_height(canvas_id),
               !.height = canvas_width(canvas_id)]

\* the Viewport init stores: the canvas's dimensions
init_viewport(vp, canvas_id) ==
    [vp EXCEPT !.width = canvas_width(canvas_id),
               !.height = canvas_height(canvas_id)]

\* init that finds a 2D context: it stores the dimensions and the context,
\* then renders
init_bind(canvas_id) ==
    /\ pc = "idle"
    /\ init_lookup(canvas_id) = "ok"
    /\ calls < MaxCalls
    /\ calls' = calls + 1
    /\ call' = Call("init", canvas_id, Zero, Zero, Zero)
    /\ VIEWPORT' = init_viewport(VIEWPORT, canvas_id)
    /\ CTX' = canvas_id
    /\ log' = <<>>
    /\ puts' = <<>>
    /\ render_enter(VIEWPORT', CTX')
    /\ UNCHANGED <<host, shown, lawful, pure>>

\* the exported render()
render ==
    /\ pc = "idle"
    /\ call' = Call("render", "", Zero, Zero, Zero)
    /\ log' = <<>>
    /\ puts' = <<>>
    /\ render_enter(VIEWPORT, CTX)
    /\ UNCHANGED <<VIEWPORT, CTX, host, shown, calls, lawful, pure>>

\* zoom_at working on a copy of the Viewport that is never stored back
zoom_viewport_dropped(vp, x, y, zoom_factor) == vp

\* the Viewport zoom_at stores
zoom_viewport(vp, x, y, zoom_factor) ==
    [vp EXCEPT !.center_x = map_pixel_to_complex(x, y, vp)[1],
               !.center_y = map_pixel_to_complex(x, y, vp)[2],
               !.range = zoom_range(vp.range, zoom_factor)]

zoom_at(x, y, zoom_factor) ==
    /\ pc = "idle"
    /\ calls < MaxCalls
    /\ calls' = calls + 1
    /\ call' = Call("zoom_at", "", x, y, zoom_factor)
    /\ VIEWPORT' = zoom_viewport(VIEWPORT, x, y, zoom_factor)
    /\ log' = <<>>
    /\ puts' = <<>>
    /\ lawful' = (lawful /\ IsFin(zoom_factor) /\ ~IsZero(zoom_factor))
    /\ render_enter(VIEWPORT', CTX)
    /\ UNCHANGED <<CTX, host, shown, pure>>

\* the offset of pixel (px, py) in the buffer
pixel_index(px, py, width) == (py * width + px) * 4

\* the pixel stored in the order B, G, R, A
store_pixel_bgra(data, idx, rgb) ==
    [data EXCEPT ![idx + 1] = rgb[3], ![idx + 2] = rgb[2],
                 ![idx + 3] = rgb[1], ![idx + 4] = 255]

\* the buffer with the four bytes of one pixel stored at idx (0-based)
store_pixel(data, idx, rgb) ==
    [data EXCEPT ![idx + 1] = rgb[1], ![idx + 2] = rgb[2],
                 ![idx + 3] = rgb[3], ![idx + 4] = 255]

\* the colour of the point c = (re, im)
pixel_color(c, max_iter) ==
    get_color(calculate_mandelbrot(c[1], c[2], max_iter), max_iter)

\* the loops leaving for the put after the first row
loop_next_first_row(px, py, width, height) ==
    IF px + 1 < width THEN [px |-> px + 1, py |-> py, pc |-> "loop"]
    ELSE [px |-> 0, py |-> py + 1, pc |-> "put"]

\* the loops' next place after the body ran at (px, py)
loop_next(px, py, width, height) ==
    IF px + 1 < width THEN [px |-> px + 1, py |-> py, pc |-> "loop"]
    ELSE IF py + 1 < height THEN [px |-> 0, py |-> py + 1, pc |-> "loop"]
    ELSE [px |-> 0, py |-> py + 1, pc |-> "put"]

\* one pass of the inner loop's body
render_pixel ==
    /\ pc = "loop"
    /\ LET vp  == frame.viewport
           c   == map_pixel_to_complex(FromInt(frame.px), FromInt(frame.py), vp)
           rgb == pixel_color(c, vp.max_iter)
           idx == pixel_index(frame.px, frame.py, vp.width)
           nx  == loop_next(frame.px, frame.py, vp.width, vp.height)
       IN  /\ frame' = [frame EXCEPT !.data = store_pixel(frame.data, idx, rgb),
                                     !.px = nx.px, !.py = nx.py]
           /\ log' = Append(log, [px |-> frame.px, py |-> frame.py, idx |-> idx,
                                  re |-> c[1], im |-> c[2], rgb |-> rgb])
           /\ pc' = nx.pc
    /\ UNCHANGED <<VIEWPORT, CTX, host, shown, call, ret, puts, renders, calls, lawful, pure>>

\* whether ImageData::new takes a buffer of len bytes as a width x height image
image_data_ok(len, width, height) ==
    width > 0 /\ height > 0 /\ len = 4 * width * height

\* the end of render: the buffer becomes an ImageData and is put on the
\* canvas; either host call may raise, and its error is returned
render_put(raises) ==
    /\ pc = "put"
    /\ LET vp == frame.viewport
           ok == image_data_ok(Len(frame.data), vp.width, vp.height) /\ ~raises
       IN  /\ shown' = IF ok
                       THEN [shown EXCEPT ![frame.ctx] =
                                Image(vp.width, vp.height, frame.data)]
                       ELSE shown
           /\ puts' = IF ok THEN Append(puts, frame.data) ELSE puts
           /\ ret' = IF ok THEN "ok" ELSE "host error"
    /\ pc' = "idle"
    /\ frame' = NoFrame
    /\ UNCHANGED <<VIEWPORT, CTX, host, call, log, renders, calls, lawful, pure>>

\* the pixel positions and factors zoom_at is called with
Half(n) == FDiv(FromInt(n), FromInt(2))

\* zoom_at's arguments: the frame's centre at the factors 2 and 1/2, its top
\* left corner at 1/2, its bottom left corner at 3, its bottom right corner
\* at -2, its top right corner at 0
ZoomArgs ==
    LET w == VIEWPORT.width
        h == VIEWPORT.height
    IN  { <<Half(w), Half(h), FromInt(2)>>,
          <<Half(w), Half(h), Lit(1, 1)>>,
          <<Zero, Zero, Lit(1, 1)>>,
          <<Zero, FromInt(h), FromInt(3)>>,
          <<FromInt(w), FromInt(h), FromInt(-2)>>,
          <<FromInt(w), Zero, Zero>> }

Next ==
    \/ \E id \in CanvasIds : init_fail(id)
    \/ \E id \in CanvasIds : init_bind(id)
    \/ render
    \/ \E a \in ZoomArgs : zoom_at(a[1], a[2], a[3])
    \/ render_pixel
    \/ \E raises \in BOOLEAN : render_put(raises)

Spec == Init /\ [][Next]_vars

--------------------------------------------------------------------------
\* the pipeline's functions on their own

\* the largest iteration budget the evaluator is run with
MaxIter == 6

\* the points the evaluator is run on lie on a grid of halves in this range
MaxCoord == 2

\* the session's state while a pure function is run
Parked ==
    /\ VIEWPORT = DefaultViewport
    /\ CTX = "None"
    /\ host = "page"
    /\ shown = [c \in Drawable |-> Blank]
    /\ pc = "parked"
    /\ frame = NoFrame
    /\ call = [op |-> "start", canvas_id |-> "", x |-> Zero, y |-> Zero,
               zoom_factor |-> Zero, viewport |-> DefaultViewport,
               ctx |-> "None", shown |-> [c \in Drawable |-> Blank]]
    /\ ret = "ok"
    /\ log = <<>>
    /\ puts = <<>>
    /\ renders = 0
    /\ calls = 0
    /\ lawful = TRUE

session == <<VIEWPORT, CTX, host, shown, pc, frame, call, ret, log, puts,
             renders, calls, lawful>>

EvalCoords == {Lit(k, 1) : k \in (-2 * MaxCoord)..(2 * MaxCoord)}

EvalInit ==
    /\ Parked
    /\ \E re0 \in EvalCoords, im0 \in EvalCoords, max_iter \in 0..MaxIter :
          pure = [f |-> "eval", re0 |-> re0, im0 |-> im0,
                  max_iter |-> max_iter, done |-> FALSE, out |-> 0]

\* one call of calculate_mandelbrot
evaluate ==
    /\ pure.f = "eval"
    /\ ~pure.done
    /\ pure' = [pure EXCEPT !.done = TRUE,
                            !.out = calculate_mandelbrot(pure.re0, pure.im0,
                                                         pure.max_iter)]
    /\ UNCHANGED session

EvalNext == evaluate

SpecEval == EvalInit /\ [][EvalNext]_vars

\* the Viewports the mapper is run on
MapCenters == {Lit(-1, 1), Zero, Lit(3, 2)}

MapRanges == {FromInt(3), Lit(3, 1), Lit(3, 3), FromInt(12)}

MapInit ==
    /\ Parked
    /\ \E cx \in MapCenters, cy \in MapCenters, range \in MapRanges,
          w \in 1..MaxDim, h \in 1..MaxDim :
          pure = [f |-> "map",
                  vp |-> Viewport(cx, cy, range, w, h, DEFAULT_MAX_ITER),
                  at |-> "none", px |-> Zero, py |-> Zero,
                  out |-> <<Zero, Zero>>]

\* the pixel position with a name: the frame's top left corner, its bottom
\* right corner, or the last pixel the render loops visit
position(at, vp) ==
    CASE at = "top_left"     -> <<Zero, Zero>>
      [] at = "bottom_right" -> <<FromInt(vp.width), FromInt(vp.height)>>
      [] at = "last_pixel"   -> <<FromInt(vp.width - 1), FromInt(vp.height - 1)>>

\* one call of map_pixel_to_complex
map_at(at) ==
    /\ pure.f = "map"
    /\ pure.at = "none"
    /\ LET p == position(at, pure.vp)
       IN  pure' = [pure EXCEPT !.at = at, !.px = p[1], !.py = p[2],
                                !.out = map_pixel_to_complex(p[1], p[2], pure.vp)]
    /\ UNCHANGED session

MapNext == \E at \in {"top_left", "bottom_right", "last_pixel"} : map_at(at)

SpecMap == MapInit /\ [][MapNext]_vars

--------------------------------------------------------------------------
\* the claims about the Escape-Time Evaluator (under SpecEval)

Two == FromInt(2)

Four == FromInt(4)

\* z * z + c for the orbit value z = (re, im)
orbit_step(z, re0, im0) ==
    <<FAdd(FSub(FMul(z[1], z[1]), FMul(z[2], z[2])), re0),
      FAdd(FMul(FMul(Two, z[1]), z[2]), im0)>>

RECURSIVE orbit_at(_, _, _)
\* the orbit of c = (re0, im0) after n steps from 0
orbit_at(re0, im0, n) ==
    IF n = 0 THEN <<Zero, Zero>> ELSE orbit_step(orbit_at(re0, im0, n - 1), re0, im0)

\* |z|^2 > 4
outside(z) == FGt(FAdd(FMul(z[1], z[1]), FMul(z[2], z[2])), Four)

\* some check of the first max_iter ones finds the orbit outside
escape_detected(re0, im0, max_iter) ==
    \E n \in 0..(max_iter - 1) : outside(orbit_at(re0, im0, n))

Evaluated == pure.f = "eval" /\ pure.done

\* C3 as the spec states it: the evaluator returns 0 for the point (2, 2)
\* whatever the positive budget, the first check of the loop seeing the escape
C3_ReturnsZeroAtTwoTwo ==
    (Evaluated /\ pure.re0 = Two /\ pure.im0 = Two /\ pure.max_iter > 0)
        => pure.out = 0

\* C3, amended: the evaluator returns 1 for the point (2, 2) whatever the
\* positive budget; the first check (n = 0) sees the orbit at 0 and cannot
\* fire, the second (n = 1) sees |z|^2 = 8 > 4, and with a budget of 1 the
\* loop ends before it and the budget, 1, is returned
C3_ReturnsOneAtTwoTwo ==
    (Evaluated /\ pure.re0 = Two /\ pure.im0 = Two /\ pure.max_iter > 0)
        => /\ pure.out = 1
           /\ ~outside(orbit_at(pure.re0, pure.im0, 0))
           /\ outside(orbit_at(pure.re0, pure.im0, 1))

C3_Witness ==
    /\ Evaluated
    /\ pure.re0 = Two /\ pure.im0 = Two
    /\ pure.max_iter = MaxIter
    /\ pure.out = 1

\* C8: the evaluator's result lies in [0, max_iter]; it is max_iter whenever
\* none of the max_iter checks finds the orbit outside the radius 2, and so
\* for the point (0, 0) under every budget
C8_ResultInRange ==
    Evaluated =>
        /\ pure.out \in 0..pure.max_iter
        /\ ~escape_detected(pure.re0, pure.im0, pure.max_iter)
              => pure.out = pure.max_iter
        /\ (pure.re0 = Zero /\ pure.im0 = Zero) => pure.out = pure.max_iter

\* the point (-2, 0), whose orbit stays on the radius 2 and never leaves it
C8_Witness ==
    /\ Evaluated
    /\ pure.re0 = FromInt(-2) /\ pure.im0 = Zero
    /\ pure.max_iter = MaxIter
    /\ ~escape_detected(pure.re0, pure.im0, pure.max_iter)
    /\ pure.out = MaxIter

--------------------------------------------------------------------------
\* the claim about the Coordinate Mapper (under SpecMap)

Mapped(at) == pure.f = "map" /\ pure.at = at

\* range * aspect / 2 and range / 2, as the claim writes them
half_width(vp) ==
    FDiv(FMul(vp.range, FDiv(FromInt(vp.width), FromInt(vp.height))), Two)

half_height(vp) == FDiv(vp.range, Two)

top_left_point(vp) ==
    <<FSub(vp.center_x, half_width(vp)), FAdd(vp.center_y, half_height(vp))>>

bottom_right_point(vp) ==
    <<FAdd(vp.center_x, half_width(vp)), FSub(vp.center_y, half_height(vp))>>

--------------------------------------------------------------------------
\* the claims about the session (under Spec)

Half1 == Lit(1, 1)

IsError(r) == r \notin {"ok", "pending"}

\* the Viewport a zoom at (x, y) by zf leaves behind, from the Viewport v:
\* the mapper's formula for the centre, the quotient for the range
zoomed(v, x, y, zf) ==
    LET w  == FromInt(v.width)
        h  == FromInt(v.height)
        rx == FMul(v.range, FDiv(w, h))
    IN  Viewport(FAdd(FMul(FSub(FDiv(x, w), Half1), rx), v.center_x),
                 FAdd(FMul(FSub(Half1, FDiv(y, h)), v.range), v.center_y),
                 FDiv(v.range, zf), v.width, v.height, v.max_iter)

\* init's canvas_id names a canvas of the page that has a 2D context
Located == host = "page" /\ call.canvas_id \in {"main", "empty"}

\* C1: render() without a bound context returns the error of the missing
\* context, computes no pixel, allocates and puts nothing, and leaves the
\* Viewport and the canvases as they were
C1_RenderUnbound ==
    (call.op = "render" /\ call.ctx = "None") =>
        /\ ret = "context not initialized"
        /\ pc = "idle"
        /\ frame = NoFrame
        /\ log = <<>>
        /\ puts = <<>>
        /\ shown = call.shown
        /\ VIEWPORT = call.viewport
        /\ CTX = "None"

C1_Witness ==
    /\ call.op = "render" /\ call.ctx = "None"
    /\ host = "page"
    /\ calls > 0
    /\ ret = "context not initialized"

\* a zoom on the frame's centre by the factor 2
CentreZoom ==
    /\ call.op = "zoom_at"
    /\ call.viewport.width > 0 /\ call.viewport.height > 0
    /\ call.x = Half(call.viewport.width)
    /\ call.y = Half(call.viewport.height)
    /\ call.zoom_factor = Two

\* the Viewport's centre and both extents of its window are finite
FiniteWindow(v) ==
    /\ IsFin(v.center_x) /\ IsFin(v.center_y) /\ IsFin(v.range)
    /\ IsFin(FMul(v.range, FDiv(FromInt(v.width), FromInt(v.height))))

\* C2 as the spec states it: zoom_at stores the mapper's image of (x, y) as
\* the centre and range / zoom_factor as the range, and a zoom on the centre
\* by 2 keeps the centre and halves the range for every Viewport of positive
\* width and height
C2_ZoomAtEveryViewport ==
    /\ call.op = "zoom_at" =>
          VIEWPORT = zoomed(call.viewport, call.x, call.y, call.zoom_factor)
    /\ CentreZoom =>
          /\ VIEWPORT.center_x = call.viewport.center_x
          /\ VIEWPORT.center_y = call.viewport.center_y
          /\ VIEWPORT.range = FDiv(call.viewport.range, Two)

\* C2, amended: the same, the zoom on the centre keeping the centre only for
\* a Viewport whose centre and window extents are finite (with an infinite
\* range the mapper's 0 * infinity makes the centre NaN)
C2_ZoomAtFiniteViewport ==
    /\ call.op = "zoom_at" =>
          VIEWPORT = zoomed(call.viewport, call.x, call.y, call.zoom_factor)
    /\ (CentreZoom /\ FiniteWindow(call.viewport)) =>
          /\ VIEWPORT.center_x = call.viewport.center_x
          /\ VIEWPORT.center_y = call.viewport.center_y
          /\ VIEWPORT.range = FDiv(call.viewport.range, Two)
          /\ FMul(VIEWPORT.range, Two) = call.viewport.range

C2_Witness ==
    /\ CentreZoom /\ FiniteWindow(call.viewport)
    /\ calls = 2
    /\ call.viewport.range = FromInt(6)
    /\ VIEWPORT.range = FromInt(3)
    /\ VIEWPORT.center_x = call.viewport.center_x

\* C4: the range is above 0 as long as every zoom_factor was nonzero and
\* finite
C4_RangePositive == lawful => FSign(VIEWPORT.range) > 0

\* C5: init on a canvas with a 2D context stores the canvas's dimensions and
\* the context, keeps centre, range and budget, and enters render once; any
\* other init returns an error with Viewport, context and canvases as they
\* were and no render entered
C5_Initialize ==
    call.op = "init" =>
        IF Located
        THEN /\ VIEWPORT.width = (IF call.canvas_id = "empty" THEN 0 ELSE MaxDim)
             /\ VIEWPORT.height = MaxDim - 1
             /\ CTX = call.canvas_id
             /\ VIEWPORT.center_x = call.viewport.center_x
             /\ VIEWPORT.center_y = call.viewport.center_y
             /\ VIEWPORT.range = call.viewport.range
             /\ VIEWPORT.max_iter = call.viewport.max_iter
             /\ renders = 1
             /\ Len(puts) <= 1
             /\ (ret = "ok") => Len(puts) = 1
        ELSE /\ IsError(ret)
             /\ VIEWPORT = call.viewport
             /\ CTX = call.ctx
             /\ shown = call.shown
             /\ renders = 0
             /\ pc = "idle" /\ log = <<>> /\ puts = <<>>

C5_Witness ==
    /\ call.op = "init" /\ Located
    /\ call.canvas_id = "main"
    /\ call.viewport.width = DEFAULT_WIDTH
    /\ VIEWPORT.width = MaxDim
    /\ ret = "ok"
    /\ shown["main"].data = puts[1]

\* the log's entries for the pixel (px, py)
visits(px, py) == {i \in 1..Len(log) : log[i].px = px /\ log[i].py = py}

\* the pixel of entry e lies in the buffer d at its offset, as R, G, B, 255
stored(d, e, width) ==
    LET idx == (e.py * width + e.px) * 4
    IN  /\ idx + 4 <= Len(d)
        /\ d[idx + 1] = e.rgb[1]
        /\ d[idx + 2] = e.rgb[2]
        /\ d[idx + 3] = e.rgb[3]
        /\ d[idx + 4] = 255

\* C6: a buffer put on the canvas has width * height * 4 bytes; the loops
\* visit every pixel of the frame once, none outside it, and leave each
\* pixel's bytes at (py * width + px) * 4 as R, G, B, 255
C6_Buffer ==
    LET w == VIEWPORT.width
        h == VIEWPORT.height
    IN  /\ \A i \in 1..Len(puts) :
              /\ Len(puts[i]) = w * h * 4
              /\ \A e \in 1..Len(log) : stored(puts[i], log[e], w)
              /\ \A k \in 1..(w * h) : puts[i][4 * k] = 255
        /\ pc \in {"loop", "put"} =>
              /\ Len(frame.data) = w * h * 4
              /\ \A e \in 1..Len(log) : stored(frame.data, log[e], w)
        /\ (pc = "put" \/ puts # <<>>) =>
              \A px \in 0..(w - 1), py \in 0..(h - 1) :
                  Cardinality(visits(px, py)) = 1
        /\ \A e \in 1..Len(log) :
              /\ log[e].px \in 0..(w - 1) /\ log[e].py \in 0..(h - 1)
              /\ Cardinality(visits(log[e].px, log[e].py)) = 1

\* a frame on the canvas with a pixel whose red and blue differ
C6_Witness ==
    /\ pc = "idle" /\ ret = "ok"
    /\ Len(puts) = 1
    /\ Len(puts[1]) = MaxDim * (MaxDim - 1) * 4
    /\ Len(log) = MaxDim * (MaxDim - 1)
    /\ \E e \in 1..Len(log) : log[e].rgb[1] # log[e].rgb[3]

\* C7: a call puts at most one image on the canvas, and only once every
\* pixel of the frame is written; until then, and when the call returns an
\* error, every canvas shows what it showed before the call
C7_NoPartialFrame ==
    /\ Len(puts) <= 1
    /\ puts = <<>> => shown = call.shown
    /\ pc # "idle" => puts = <<>>
    /\ IsError(ret) => (puts = <<>> /\ shown = call.shown)
    /\ puts # <<>> =>
          /\ ret = "ok"
          /\ Len(log) = VIEWPORT.width * VIEWPORT.height
          /\ shown = [call.shown EXCEPT ![CTX] =
                         Image(VIEWPORT.width, VIEWPORT.height, puts[1])]

\* a render that ran all its pixels and whose put raised
C7_Witness ==
    /\ call.op = "zoom_at"
    /\ ret = "host error"
    /\ Len(log) = MaxDim * (MaxDim - 1)
    /\ shown = call.shown
    /\ shown["main"] # Blank

\* C10: what zoom_at and init store stays stored when their render fails: a
\* zoom_at without a context returns the error of the missing context with
\* centre and range updated, an init renders the Viewport as the zooms
\* before it left it, and an init whose render fails leaves the context
\* bound and the dimensions overwritten
C10_StoredBeforeRender ==
    /\ (call.op = "zoom_at" /\ call.ctx = "None") =>
          /\ ret = "context not initialized"
          /\ VIEWPORT = zoomed(call.viewport, call.x, call.y, call.zoom_factor)
    /\ (call.op = "zoom_at" /\ IsError(ret)) =>
          VIEWPORT = zoomed(call.viewport, call.x, call.y, call.zoom_factor)
    /\ (call.op = "init" /\ pc \in {"loop", "put"}) =>
          /\ frame.viewport = VIEWPORT
          /\ frame.viewport.center_x = call.viewport.center_x
          /\ frame.viewport.center_y = call.viewport.center_y
          /\ frame.viewport.range = call.viewport.range
    /\ (call.op = "init" /\ Located /\ IsError(ret)) =>
          /\ CTX = call.canvas_id
          /\ VIEWPORT.width = (IF call.canvas_id = "empty" THEN 0 ELSE MaxDim)
          /\ VIEWPORT.height = MaxDim - 1

\* an init after a zoom without a context, its render failing at the put
C10_Witness ==
    /\ call.op = "init" /\ call.canvas_id = "main"
    /\ call.ctx = "None"
    /\ call.viewport.range = FromInt(6)
    /\ call.viewport.center_x # DefaultViewport.center_x
    /\ ret = "host error"
    /\ CTX = "main"
    /\ VIEWPORT.width = MaxDim
    /\ VIEWPORT.range = FromInt(6)

====
